---------------------------- MODULE Spec2Model ----------------------------
(***************************************************************************)
(* Model of the migration job execution engine of vm-migrator-v2:          *)
(* the Celery task execute_migration_job (backend/app/tasks.py), the Job   *)
(* Store rows it reads and writes (backend/app/models.py) and the system   *)
(* event log (backend/app/logging_utils.py).                               *)
(*                                                                         *)
(* Every db.commit() of the task is one atomic step of the model, so that  *)
(* other executions and readers can interleave exactly where the database  *)
(* lets them.                                                              *)
(***************************************************************************)
EXTENDS Integers, Sequences, FiniteSets, TLC

\* ------------------------------------------------------------------ bounds

\* Total number of deliveries of the task (executions started) in one behaviour.
MaxRuns == 2

\* ------------------------------------------------------- identities, tables

\* Worker slots able to run the task at the same time.
RunIds == {"w1", "w2"}

\* Job identifiers the task may be called with.
JobIds == {1, 2}

\* A nullable foreign key / nullable column that holds NULL.
NoId == 0
None == "<None>"

\* ProviderType enum.
ProviderType == {"proxmox", "vcenter"}

\* The providers table: id -> type.  Id 3 is an id with no row.
providers == (1 :> [id |-> 1, type |-> "vcenter"]) @@ (2 :> [id |-> 2, type |-> "proxmox"])
NoProvider == [id |-> NoId, type |-> None]

\* The virtual_machines table.  Id 2 is an id with no row.
virtual_machines ==
    (1 :> [id |-> 1, name |-> "db-01", source_identifier |-> "vm-101", provider_id |-> 1])
    @@ (3 :> [id |-> 3, name |-> "web-02", source_identifier |-> "vm-202", provider_id |-> 2])
NoVM == [id |-> NoId, name |-> None, source_identifier |-> None, provider_id |-> NoId]

\* Values of the nullable columns of a Job row that the task reads.
ProviderRefs == {NoId, 1, 2, 3}
VMRefs == {NoId, 1, 2}
TargetNodes == {None, "", "pve-x"}

\* What fetch_nodes can return: the names of the nodes, in the connector's order.
NodeLists == {<< >>, <<"pve-a">>, <<"pve-b", "pve-a">>}

\* The phase pipeline: (label, target progress).
phases == << <<"Export VM from vCenter as OVA", 50>>,
             <<"Convert disks to qcow2 using qemu-img", 65>>,
             <<"Upload converted disks to Proxmox storage", 80>>,
             <<"Provision Proxmox VM and attach disks", 90>>,
             <<"Initiate Proxmox live migration", 100>> >>

\* ------------------------------------------------------------------- state

VARIABLES
    jobs,         \* jobs table: job id -> row, or NoJob
    job_logs,     \* job_logs table, per job id, in id order
    system_logs,  \* system_logs table, in id order
    run,          \* per worker slot: the locals and position of its execution
    hist,         \* per worker slot: what its current execution has done so far
    nruns,        \* number of executions started
    latest,       \* per job id: the number of the execution started last for it
    subs,         \* per subscription slot: the locals of stream_job.event_gen
    queue,        \* job ids apply_async has sent and no worker has taken yet
    requests,     \* per request slot: the position of a create_job / create_batch call
    events_up     \* whether record_system_event can persist a SystemLog row

vars == <<jobs, job_logs, system_logs, run, hist, nruns, latest, subs, queue, requests, events_up>>

NoJob == [status |-> "absent"]

Job(vm_name, source_provider_id, destination_provider_id, source_vm_id, target_node) ==
    [vm_name |-> vm_name, status |-> "queued", progress |-> 0, created_at |-> "now()",
     source_provider_id |-> source_provider_id,
     destination_provider_id |-> destination_provider_id,
     source_vm_id |-> source_vm_id, target_node |-> target_node]

NoExc == [type |-> None, msg |-> None]
NoResult == [kind |-> "none", ok |-> FALSE]

IdleRun == [pc |-> "idle", job_id |-> NoId, target_node |-> None,
            proxmox_nodes |-> << >>, progress |-> 0, phase |-> 1,
            meta |-> [progress |-> 0, step |-> None],
            exc |-> NoExc, result |-> NoResult]

NoHist == [seq |-> 0, first_log |-> 0, source |-> "none", destination |-> "none",
           nodes |-> << >>, persisted |-> << >>, explicit |-> None]

\* Python truthiness of an Optional[str].
Truthy(s) == s # None /\ s # ""

Active(r) == run[r].pc \notin {"idle", "done"}

\* Subscription slots: a caller of GET /api/jobs/{job_id}/stream, who may call
\* again once the previous response has ended.
SubIds == {"s1"}

\* The locals of one event_gen: the job id of the call, last_id, the Job
\* entity its session holds, and what it has yielded: the data events in
\* order, the payload of the latest progress event, the done event; again
\* tells that the slot has had an earlier subscription.
NoProgress == -1
NoSub == [pc |-> "idle", again |-> FALSE, job_id |-> NoId, last_id |-> 0, job |-> NoJob,
          polled |-> FALSE, data |-> << >>, progress |-> NoProgress, done |-> None]

\* Request slots: concurrent calls of POST /api/jobs and POST /api/jobs/batch.
RequestIds == {"q1", "q2"}

\* The locals of one call: the payload once validated, the id of the Job just
\* added, the jobs of the response so far, and the status of the response.
IdleRequest == [pc |-> "idle", source_provider_id |-> NoId, destination_provider_id |-> NoId,
                source_vm_ids |-> << >>, target_node |-> None, job_id |-> NoId,
                out |-> << >>, response |-> None]

\* Payloads of the calls: provider ids (3 has no row), VM ids (2 has no row),
\* the lists of VM ids of a batch, the optional target node.
PayloadProviders == {1, 2, 3}
PayloadVMs == {1, 2, 3}
PayloadVMLists == {<< >>, <<1>>, <<1, 1>>, <<1, 3>>, <<2, 1>>}
PayloadTargets == {None, "pve-x"}

\* ------------------------------------------------------------------ helpers

\* _load_provider: None for a NULL id, else the row if there is one.
_load_provider(provider_id) ==
    IF provider_id = NoId THEN NoProvider
    ELSE IF provider_id \in DOMAIN providers THEN providers[provider_id]
    ELSE NoProvider

\* _load_vm: None for a NULL id, else the row if there is one.
_load_vm(vm_id) ==
    IF vm_id = NoId THEN NoVM
    ELSE IF vm_id \in DOMAIN virtual_machines THEN virtual_machines[vm_id]
    ELSE NoVM

\* _log that files every entry under job 1.
_logToFirstJob(logs, job_id, message) == [logs EXCEPT ![1] = Append(@, message)]

\* _log: one JobLog row for the job, committed.
_log(logs, job_id, message) == [logs EXCEPT ![job_id] = Append(@, message)]

\* record_system_event: one SystemLog row; when the row cannot be persisted the
\* exception is caught inside the function and the call returns all the same.
record_system_event(logs, level, component, text, job_id) ==
    IF events_up
    THEN Append(logs, [level |-> level, component |-> component, text |-> text,
                       job_id |-> job_id])
    ELSE logs

\* The log message the outer guard writes for an exception.
FailedMessage(exc) == <<"Failed", exc.type, exc.msg>>

\* raise: the exception travels to the outer guard of the task.
Raise(r, type, msg) == [run[r] EXCEPT !.pc = "except", !.exc = [type |-> type, msg |-> msg]]

\* A committed write of job.progress by execution r.
Persist(r, value) == [hist EXCEPT ![r].persisted = Append(@, value)]

\* The job row execution r works on.
JobOf(r) == jobs[run[r].job_id]

\* ---------------------------------------------------------- initial states

\* One Job row (id 1), as the submission path persists it (queued, progress 0),
\* with every combination of the nullable columns; id 2 has no row.
Init ==
    /\ \E s \in ProviderRefs, d \in ProviderRefs, v \in VMRefs, t \in TargetNodes :
          jobs = [j \in JobIds |-> IF j = 1 THEN Job("db-01", s, d, v, t) ELSE NoJob]
    /\ job_logs = [j \in JobIds |-> << >>]
    /\ system_logs = << >>
    /\ run = [r \in RunIds |-> IdleRun]
    /\ hist = [r \in RunIds |-> NoHist]
    /\ nruns = 0
    /\ latest = [j \in JobIds |-> 0]
    /\ subs = [s \in SubIds |-> NoSub]
    /\ queue = {}
    /\ requests = [q \in RequestIds |-> IdleRequest]
    /\ events_up = TRUE

\* ------------------------------------------- execute_migration_job: set-up

\* Start that writes a job log entry for an id that has no Job row.
StartLogsMissing(r, job_id) ==
    /\ ~Active(r)
    /\ nruns < MaxRuns
    /\ nruns' = nruns + 1
    /\ latest' = [latest EXCEPT ![job_id] = nruns + 1]
    /\ hist' = [hist EXCEPT ![r] = [NoHist EXCEPT !.seq = nruns + 1,
                                                  !.first_log = Len(job_logs[job_id])]]
    /\ UNCHANGED <<subs, requests, events_up>>
    /\ IF jobs[job_id] = NoJob
       THEN /\ system_logs' = record_system_event(system_logs, "ERROR", "worker",
                                                  "Migration job not found", job_id)
            /\ job_logs' = _log(job_logs, job_id, <<"Job not found">>)
            /\ run' = [run EXCEPT ![r] = [IdleRun EXCEPT !.pc = "done", !.job_id = job_id,
                          !.result = [kind |-> "return", ok |-> FALSE,
                                      error |-> "Job not found"]]]
            /\ UNCHANGED jobs
       ELSE /\ jobs' = [jobs EXCEPT ![job_id].status = "running", ![job_id].progress = 0]
            /\ system_logs' = record_system_event(system_logs, "INFO", "worker",
                                                  "Migration job started", job_id)
            /\ run' = [run EXCEPT ![r] = [IdleRun EXCEPT !.pc = "log_start", !.job_id = job_id]]
            /\ UNCHANGED job_logs

\* The task is delivered to a free worker slot with argument job_id.
\* Lines 45-67: load the Job; absent: report and return; else running, 0.
Start(r, job_id) ==
    /\ ~Active(r)
    /\ nruns < MaxRuns
    /\ nruns' = nruns + 1
    /\ latest' = [latest EXCEPT ![job_id] = nruns + 1]
    /\ hist' = [hist EXCEPT ![r] = [NoHist EXCEPT !.seq = nruns + 1,
                                                  !.first_log = Len(job_logs[job_id])]]
    /\ UNCHANGED <<job_logs, subs, requests, events_up>>
    /\ IF jobs[job_id] = NoJob
       THEN /\ system_logs' = record_system_event(system_logs, "ERROR", "worker",
                                                  "Migration job not found", job_id)
            /\ run' = [run EXCEPT ![r] = [IdleRun EXCEPT !.pc = "done", !.job_id = job_id,
                          !.result = [kind |-> "return", ok |-> FALSE,
                                      error |-> "Job not found"]]]
            /\ UNCHANGED jobs
       ELSE /\ jobs' = [jobs EXCEPT ![job_id].status = "running", ![job_id].progress = 0]
            /\ system_logs' = record_system_event(system_logs, "INFO", "worker",
                                                  "Migration job started", job_id)
            /\ run' = [run EXCEPT ![r] = [IdleRun EXCEPT !.pc = "log_start", !.job_id = job_id]]

\* Line 69.
LogStart(r) ==
    /\ run[r].pc = "log_start"
    /\ job_logs' = _log(job_logs, run[r].job_id, <<"Starting migration workflow.">>)
    /\ run' = [run EXCEPT ![r].pc = "preload"]
    /\ UNCHANGED <<jobs, system_logs, hist, nruns, latest, subs, queue, requests, events_up>>

\* Preload that does not look at the VM.
PreloadSkipsVM(r) ==
    /\ run[r].pc = "preload"
    /\ LET job == JobOf(r)
           source_provider == _load_provider(job.source_provider_id)
           dest_provider == _load_provider(job.destination_provider_id)
       IN IF source_provider = NoProvider \/ dest_provider = NoProvider
          THEN /\ jobs' = [jobs EXCEPT ![run[r].job_id].status = "failed"]
               /\ system_logs' = record_system_event(system_logs, "ERROR", "worker",
                                    "Migration job failed before execution: missing context",
                                    run[r].job_id)
               /\ run' = [run EXCEPT ![r] =
                            Raise(r, "ValueError", "Job is missing provider or VM information.")]
          ELSE /\ run' = [run EXCEPT ![r].pc = "roles"]
               /\ UNCHANGED <<jobs, system_logs>>
    /\ UNCHANGED <<job_logs, hist, nruns, latest, subs, queue, requests, events_up>>

\* Lines 71-90: resolve the providers and the VM; any of them missing is fatal.
Preload(r) ==
    /\ run[r].pc = "preload"
    /\ LET job == JobOf(r)
           source_provider == _load_provider(job.source_provider_id)
           dest_provider == _load_provider(job.destination_provider_id)
           vm == _load_vm(job.source_vm_id)
       IN IF source_provider = NoProvider \/ dest_provider = NoProvider \/ vm = NoVM
          THEN /\ jobs' = [jobs EXCEPT ![run[r].job_id].status = "failed"]
               /\ system_logs' = record_system_event(system_logs, "ERROR", "worker",
                                    "Migration job failed before execution: missing context",
                                    run[r].job_id)
               /\ run' = [run EXCEPT ![r] =
                            Raise(r, "ValueError", "Job is missing provider or VM information.")]
          ELSE /\ run' = [run EXCEPT ![r].pc = "roles"]
               /\ UNCHANGED <<jobs, system_logs>>
    /\ UNCHANGED <<job_logs, hist, nruns, latest, subs, queue, requests, events_up>>

\* CheckRoles with the destination check left out.
CheckRolesSourceOnly(r) ==
    /\ run[r].pc = "roles"
    /\ LET job == JobOf(r)
           source_provider == _load_provider(job.source_provider_id)
       IN IF source_provider.type # "vcenter"
          THEN /\ jobs' = [jobs EXCEPT ![run[r].job_id].status = "failed"]
               /\ system_logs' = record_system_event(system_logs, "ERROR", "worker",
                                    "Migration job failed: source provider not vCenter",
                                    run[r].job_id)
               /\ run' = [run EXCEPT ![r] =
                            Raise(r, "ValueError", "Source provider must be a vCenter instance.")]
          ELSE /\ run' = [run EXCEPT ![r].pc = "log_source"]
               /\ UNCHANGED <<jobs, system_logs>>
    /\ UNCHANGED <<job_logs, hist, nruns, latest, subs, queue, requests, events_up>>

\* Lines 92-120: the source must be a vCenter, the destination a Proxmox VE.
CheckRoles(r) ==
    /\ run[r].pc = "roles"
    /\ LET job == JobOf(r)
           source_provider == _load_provider(job.source_provider_id)
           dest_provider == _load_provider(job.destination_provider_id)
       IN IF source_provider.type # "vcenter"
          THEN /\ jobs' = [jobs EXCEPT ![run[r].job_id].status = "failed"]
               /\ system_logs' = record_system_event(system_logs, "ERROR", "worker",
                                    "Migration job failed: source provider not vCenter",
                                    run[r].job_id)
               /\ run' = [run EXCEPT ![r] =
                            Raise(r, "ValueError", "Source provider must be a vCenter instance.")]
          ELSE IF dest_provider.type # "proxmox"
          THEN /\ jobs' = [jobs EXCEPT ![run[r].job_id].status = "failed"]
               /\ system_logs' = record_system_event(system_logs, "ERROR", "worker",
                                    "Migration job failed: destination provider not Proxmox",
                                    run[r].job_id)
               /\ run' = [run EXCEPT ![r] =
                            Raise(r, "ValueError",
                                  "Destination provider must be a Proxmox VE instance.")]
          ELSE /\ run' = [run EXCEPT ![r].pc = "log_source"]
               /\ UNCHANGED <<jobs, system_logs>>
    /\ UNCHANGED <<job_logs, hist, nruns, latest, subs, queue, requests, events_up>>

\* --------------------------------------- execute_migration_job: connectivity

\* How a call of fetch_inventory can end: a result, VCenterError (the only
\* error the task suppresses), or any other exception of the vSphere client.
SourceOutcomes == {"ok", "VCenterError", "Exception"}

\* How a call of fetch_nodes can end: a result, ProxmoxError (suppressed), or
\* another exception (urlparse raises ValueError on a malformed port).
DestinationOutcomes == {"ok", "ProxmoxError", "ValueError"}

\* LogSource without the log entry.
LogSourceSilent(r) ==
    /\ run[r].pc = "log_source"
    /\ run' = [run EXCEPT ![r].pc = "fetch_inventory"]
    /\ UNCHANGED <<jobs, job_logs, system_logs, hist, nruns, latest, subs, queue, requests, events_up>>

\* Line 123.
LogSource(r) ==
    /\ run[r].pc = "log_source"
    /\ job_logs' = _log(job_logs, run[r].job_id, <<"Validating connectivity with vCenter source.">>)
    /\ run' = [run EXCEPT ![r].pc = "fetch_inventory"]
    /\ UNCHANGED <<jobs, system_logs, hist, nruns, latest, subs, queue, requests, events_up>>

\* FetchInventory that writes progress 10 whether or not the call succeeded.
FetchInventoryAlwaysTen(r) ==
    /\ run[r].pc = "fetch_inventory"
    /\ \E outcome \in SourceOutcomes :
          /\ jobs' = [jobs EXCEPT ![run[r].job_id].progress = 10]
          /\ hist' = [Persist(r, 10) EXCEPT ![r].source = outcome]
          /\ run' = [run EXCEPT ![r].pc = "check_source"]
    /\ UNCHANGED <<job_logs, system_logs, nruns, latest, subs, queue, requests, events_up>>

\* Lines 124-133: with suppress(VCenterError): fetch_inventory(...); progress = 10.
FetchInventory(r) ==
    /\ run[r].pc = "fetch_inventory"
    /\ \E outcome \in SourceOutcomes :
          /\ CASE outcome = "ok" ->
                    /\ jobs' = [jobs EXCEPT ![run[r].job_id].progress = 10]
                    /\ hist' = [Persist(r, 10) EXCEPT ![r].source = outcome]
                    /\ run' = [run EXCEPT ![r].pc = "check_source"]
               [] outcome = "VCenterError" ->
                    /\ hist' = [hist EXCEPT ![r].source = outcome]
                    /\ run' = [run EXCEPT ![r].pc = "check_source"]
                    /\ UNCHANGED jobs
               [] OTHER ->
                    /\ hist' = [hist EXCEPT ![r].source = outcome]
                    /\ run' = [run EXCEPT ![r] = Raise(r, outcome, "vCenter API fault")]
                    /\ UNCHANGED jobs
    /\ UNCHANGED <<job_logs, system_logs, nruns, latest, subs, queue, requests, events_up>>

\* CheckSource with the test of line 134 left out.
CheckSourceSkipped(r) ==
    /\ run[r].pc = "check_source"
    /\ run' = [run EXCEPT ![r].pc = "log_dest"]
    /\ UNCHANGED <<jobs, job_logs, system_logs, hist, nruns, latest, subs, queue, requests, events_up>>

\* CheckSource that calls the connector again when the progress did not move.
CheckSourceRetries(r) ==
    /\ run[r].pc = "check_source"
    /\ run' = IF JobOf(r).progress < 10
              THEN [run EXCEPT ![r].pc = "fetch_inventory"]
              ELSE [run EXCEPT ![r].pc = "log_dest"]
    /\ UNCHANGED <<jobs, job_logs, system_logs, hist, nruns, latest, subs, queue, requests, events_up>>

\* Lines 134-135: failure is inferred from the progress the session reads back.
CheckSource(r) ==
    /\ run[r].pc = "check_source"
    /\ run' = IF JobOf(r).progress < 10
              THEN [run EXCEPT ![r] = Raise(r, "VCenterError",
                                     "Unable to connect to vCenter with stored credentials.")]
              ELSE [run EXCEPT ![r].pc = "log_dest"]
    /\ UNCHANGED <<jobs, job_logs, system_logs, hist, nruns, latest, subs, queue, requests, events_up>>

\* Line 137.
LogDest(r) ==
    /\ run[r].pc = "log_dest"
    /\ job_logs' = _log(job_logs, run[r].job_id,
                        <<"Validating connectivity with Proxmox destination.">>)
    /\ run' = [run EXCEPT ![r].pc = "fetch_nodes"]
    /\ UNCHANGED <<jobs, system_logs, hist, nruns, latest, subs, queue, requests, events_up>>

\* Lines 138-147: with suppress(ProxmoxError): fetch_nodes(...); progress = 20.
FetchNodes(r) ==
    /\ run[r].pc = "fetch_nodes"
    /\ \E outcome \in DestinationOutcomes :
          /\ CASE outcome = "ok" ->
                    \E nodes \in NodeLists :
                       /\ jobs' = [jobs EXCEPT ![run[r].job_id].progress = 20]
                       /\ hist' = [Persist(r, 20) EXCEPT ![r].destination = outcome,
                                                         ![r].nodes = nodes]
                       /\ run' = [run EXCEPT ![r].pc = "check_dest", ![r].proxmox_nodes = nodes]
               [] outcome = "ProxmoxError" ->
                    /\ hist' = [hist EXCEPT ![r].destination = outcome]
                    /\ run' = [run EXCEPT ![r].pc = "check_dest"]
                    /\ UNCHANGED jobs
               [] OTHER ->
                    /\ hist' = [hist EXCEPT ![r].destination = outcome]
                    /\ run' = [run EXCEPT ![r] = Raise(r, outcome,
                                              "Port could not be cast to integer value")]
                    /\ UNCHANGED jobs
    /\ UNCHANGED <<job_logs, system_logs, nruns, latest, subs, queue, requests, events_up>>

\* CheckDest testing against the source's threshold (10) instead of 20.
CheckDestAgainstTen(r) ==
    /\ run[r].pc = "check_dest"
    /\ run' = IF JobOf(r).progress < 10
              THEN [run EXCEPT ![r] = Raise(r, "ProxmoxError",
                                     "Unable to connect to Proxmox with stored credentials.")]
              ELSE [run EXCEPT ![r].pc = "plan"]
    /\ UNCHANGED <<jobs, job_logs, system_logs, hist, nruns, latest, subs, queue, requests, events_up>>

\* CheckDest waiting for progress 20 instead of raising.
CheckDestWaits(r) ==
    /\ run[r].pc = "check_dest"
    /\ JobOf(r).progress >= 20
    /\ run' = [run EXCEPT ![r].pc = "plan"]
    /\ UNCHANGED <<jobs, job_logs, system_logs, hist, nruns, latest, subs, queue, requests, events_up>>

\* Lines 148-151.
CheckDest(r) ==
    /\ run[r].pc = "check_dest"
    /\ run' = IF JobOf(r).progress < 20
              THEN [run EXCEPT ![r] = Raise(r, "ProxmoxError",
                                     "Unable to connect to Proxmox with stored credentials.")]
              ELSE [run EXCEPT ![r].pc = "plan"]
    /\ UNCHANGED <<jobs, job_logs, system_logs, hist, nruns, latest, subs, queue, requests, events_up>>

\* ------------------------------------------- execute_migration_job: planning

\* ResolveTarget preferring the first node fetch_nodes returned.
ResolveTargetPreferNodes(job_target_node, proxmox_nodes) ==
    IF Len(proxmox_nodes) > 0 THEN proxmox_nodes[1]
    ELSE IF Truthy(job_target_node) THEN job_target_node
    ELSE None

\* ResolveTarget falling back to a default node name when no node came back.
ResolveTargetDefault(job_target_node, proxmox_nodes) ==
    IF Truthy(job_target_node) THEN job_target_node
    ELSE IF Len(proxmox_nodes) > 0 THEN proxmox_nodes[1]
    ELSE "pve"

\* ResolveTarget taking the last node fetch_nodes returned instead of the first.
ResolveTargetLastNode(job_target_node, proxmox_nodes) ==
    IF Truthy(job_target_node) THEN job_target_node
    ELSE IF Len(proxmox_nodes) > 0 THEN proxmox_nodes[Len(proxmox_nodes)]
    ELSE None

\* Line 154-156: job.target_node or (proxmox_nodes[0].name if proxmox_nodes else None).
ResolveTarget(job_target_node, proxmox_nodes) ==
    IF Truthy(job_target_node) THEN job_target_node
    ELSE IF Len(proxmox_nodes) > 0 THEN proxmox_nodes[1]
    ELSE None

\* Plan that keeps the resolved target to itself.
PlanNotPersisted(r) ==
    /\ run[r].pc = "plan"
    /\ LET job == JobOf(r)
           target_node == ResolveTarget(job.target_node, run[r].proxmox_nodes)
       IN /\ hist' = [hist EXCEPT ![r].explicit = job.target_node]
          /\ IF ~Truthy(target_node)
             THEN run' = [run EXCEPT ![r] = Raise(r, "ValueError",
                     "Destination node not specified and Proxmox cluster returned no nodes.")]
             ELSE run' = [run EXCEPT ![r].pc = "log_plan", ![r].target_node = target_node]
    /\ UNCHANGED <<jobs, job_logs, system_logs, nruns, latest, subs, queue, requests, events_up>>

\* Plan that writes the first node of the cluster over the job's target_node.
PlanOverwrites(r) ==
    /\ run[r].pc = "plan"
    /\ LET job == JobOf(r)
           target_node == ResolveTargetPreferNodes(job.target_node, run[r].proxmox_nodes)
       IN /\ hist' = [hist EXCEPT ![r].explicit = job.target_node]
          /\ IF ~Truthy(target_node)
             THEN /\ run' = [run EXCEPT ![r] = Raise(r, "ValueError",
                     "Destination node not specified and Proxmox cluster returned no nodes.")]
                  /\ UNCHANGED jobs
             ELSE /\ run' = [run EXCEPT ![r].pc = "log_plan", ![r].target_node = target_node]
                  /\ jobs' = [jobs EXCEPT ![run[r].job_id].target_node = target_node]
    /\ UNCHANGED <<job_logs, system_logs, nruns, latest, subs, queue, requests, events_up>>

\* Lines 153-163.
Plan(r) ==
    /\ run[r].pc = "plan"
    /\ LET job == JobOf(r)
           target_node == ResolveTarget(job.target_node, run[r].proxmox_nodes)
       IN /\ hist' = [hist EXCEPT ![r].explicit = job.target_node]
          /\ IF ~Truthy(target_node)
             THEN /\ run' = [run EXCEPT ![r] = Raise(r, "ValueError",
                     "Destination node not specified and Proxmox cluster returned no nodes.")]
                  /\ UNCHANGED jobs
             ELSE /\ run' = [run EXCEPT ![r].pc = "log_plan", ![r].target_node = target_node]
                  /\ jobs' = IF ~Truthy(job.target_node)
                             THEN [jobs EXCEPT ![run[r].job_id].target_node = target_node]
                             ELSE jobs
    /\ UNCHANGED <<job_logs, system_logs, nruns, latest, subs, queue, requests, events_up>>

\* LogPlan without the log entry.
LogPlanSilent(r) ==
    /\ run[r].pc = "log_plan"
    /\ run' = [run EXCEPT ![r].pc = "progress_30"]
    /\ UNCHANGED <<jobs, job_logs, system_logs, hist, nruns, latest, subs, queue, requests, events_up>>

\* Lines 165-170.
LogPlan(r) ==
    /\ run[r].pc = "log_plan"
    /\ LET vm == _load_vm(JobOf(r).source_vm_id)
       IN job_logs' = _log(job_logs, run[r].job_id,
                           <<"Prepared migration plan", vm.name, vm.source_identifier,
                             run[r].target_node>>)
    /\ run' = [run EXCEPT ![r].pc = "progress_30"]
    /\ UNCHANGED <<jobs, system_logs, hist, nruns, latest, subs, queue, requests, events_up>>

\* Lines 171-172.
Progress30(r) ==
    /\ run[r].pc = "progress_30"
    /\ jobs' = [jobs EXCEPT ![run[r].job_id].progress = 30]
    /\ hist' = Persist(r, 30)
    /\ run' = [run EXCEPT ![r].pc = "phase_log", ![r].phase = 1]
    /\ UNCHANGED <<job_logs, system_logs, nruns, latest, subs, queue, requests, events_up>>

\* ------------------------------------- execute_migration_job: phase pipeline

min(a, b) == IF a < b THEN a ELSE b

step(r) == phases[run[r].phase][1]
target(r) == phases[run[r].phase][2]

\* LoopBranch that leaves a phase ten points before its target.
LoopBranchStopsEarly(r, progress) ==
    IF progress + 10 < target(r)
    THEN [run[r] EXCEPT !.pc = "phase_incr", !.progress = progress]
    ELSE IF run[r].phase < Len(phases)
    THEN [run[r] EXCEPT !.pc = "phase_log", !.progress = progress, !.phase = @ + 1]
    ELSE [run[r] EXCEPT !.pc = "log_completed", !.progress = progress]

\* Line 184 and line 182: the while test on the progress the session holds,
\* then the next phase, then the end of the for loop.
LoopBranch(r, progress) ==
    IF progress < target(r)
    THEN [run[r] EXCEPT !.pc = "phase_incr", !.progress = progress]
    ELSE IF run[r].phase < Len(phases)
    THEN [run[r] EXCEPT !.pc = "phase_log", !.progress = progress, !.phase = @ + 1]
    ELSE [run[r] EXCEPT !.pc = "log_completed", !.progress = progress]

\* Line 183.
PhaseLog(r) ==
    /\ run[r].pc = "phase_log"
    /\ job_logs' = _log(job_logs, run[r].job_id, <<step(r)>>)
    /\ run' = [run EXCEPT ![r].pc = "phase_check"]
    /\ UNCHANGED <<jobs, system_logs, hist, nruns, latest, subs, queue, requests, events_up>>

\* Line 184, first test of a phase: the commit of _log expired the session's
\* Job, so job.progress is read back from the store.
PhaseCheck(r) ==
    /\ run[r].pc = "phase_check"
    /\ run' = [run EXCEPT ![r] = LoopBranch(r, JobOf(r).progress)]
    /\ UNCHANGED <<jobs, job_logs, system_logs, hist, nruns, latest, subs, queue, requests, events_up>>

\* Increment that forgets the progress made so far.
IncrementLost(progress, target_progress) == min(5, target_progress)

\* Increment in steps of ten.
IncrementByTen(progress, target_progress) == min(progress + 10, target_progress)

\* The progress value an increment writes (line 186).
Increment(progress, target_progress) == min(progress + 5, target_progress)

\* Lines 185-187: sleep, job.progress = min(job.progress + 5, target), commit.
PhaseIncr(r) ==
    /\ run[r].pc = "phase_incr"
    /\ LET value == Increment(run[r].progress, target(r))
       IN /\ jobs' = [jobs EXCEPT ![run[r].job_id].progress = value]
          /\ hist' = Persist(r, value)
    /\ run' = [run EXCEPT ![r].pc = "phase_notify"]
    /\ UNCHANGED <<job_logs, system_logs, nruns, latest, subs, queue, requests, events_up>>

\* How self.update_state can end: the state is stored, or the result backend
\* cannot be reached and the call raises.
NotifyOutcomes == {"ok", "ConnectionError"}

\* Lines 188-190, then line 184: update_state reads job.progress back from the
\* store (the commit expired it); the while test uses the value just read.
PhaseNotify(r) ==
    /\ run[r].pc = "phase_notify"
    /\ \E outcome \in NotifyOutcomes :
          LET progress == JobOf(r).progress
          IN run' = IF outcome = "ok"
                    THEN [run EXCEPT ![r] = [LoopBranch(r, progress) EXCEPT
                                        !.meta = [progress |-> progress, step |-> step(r)]]]
                    ELSE [run EXCEPT ![r] = Raise(r, outcome, "result backend unavailable")]
    /\ UNCHANGED <<jobs, job_logs, system_logs, hist, nruns, latest, subs, queue, requests, events_up>>

\* ----------------------------------------- execute_migration_job: completion

\* Lines 192-196.
LogCompleted(r) ==
    /\ run[r].pc = "log_completed"
    /\ job_logs' = _log(job_logs, run[r].job_id, <<"Migration workflow completed">>)
    /\ run' = [run EXCEPT ![r].pc = "complete"]
    /\ UNCHANGED <<jobs, system_logs, hist, nruns, latest, subs, queue, requests, events_up>>

\* Complete in which a system event that cannot be persisted raises into the
\* outer guard.
CompleteEventRaises(r) ==
    /\ run[r].pc = "complete"
    /\ jobs' = [jobs EXCEPT ![run[r].job_id].status = "completed"]
    /\ system_logs' = record_system_event(system_logs, "INFO", "worker",
                                          "Migration job completed", run[r].job_id)
    /\ run' = IF events_up
              THEN [run EXCEPT ![r].pc = "done",
                               ![r].result = [kind |-> "return", ok |-> TRUE,
                                              job_id |-> run[r].job_id,
                                              vm_name |-> JobOf(r).vm_name,
                                              target_node |-> run[r].target_node]]
              ELSE [run EXCEPT ![r] = Raise(r, "OperationalError", "system_logs unavailable")]
    /\ UNCHANGED <<job_logs, hist, nruns, latest, subs, queue, requests, events_up>>

\* Lines 197-210: status completed, the system event, the result payload.
Complete(r) ==
    /\ run[r].pc = "complete"
    /\ jobs' = [jobs EXCEPT ![run[r].job_id].status = "completed"]
    /\ system_logs' = record_system_event(system_logs, "INFO", "worker",
                                          "Migration job completed", run[r].job_id)
    /\ run' = [run EXCEPT ![r].pc = "done",
                          ![r].result = [kind |-> "return", ok |-> TRUE,
                                         job_id |-> run[r].job_id,
                                         vm_name |-> JobOf(r).vm_name,
                                         target_node |-> run[r].target_node]]
    /\ UNCHANGED <<job_logs, hist, nruns, latest, subs, queue, requests, events_up>>

\* ---------------------------------------- execute_migration_job: outer guard

\* ExceptMark that does not write the status.
ExceptMarkNoWrite(r) ==
    /\ run[r].pc = "except"
    /\ run' = [run EXCEPT ![r].pc = "except_log"]
    /\ UNCHANGED <<jobs, job_logs, system_logs, hist, nruns, latest, subs, queue, requests, events_up>>

\* ExceptMark that also resets the progress.
ExceptMarkResetsProgress(r) ==
    /\ run[r].pc = "except"
    /\ jobs' = [jobs EXCEPT ![run[r].job_id].status = "failed", ![run[r].job_id].progress = 0]
    /\ run' = [run EXCEPT ![r].pc = "except_log"]
    /\ UNCHANGED <<job_logs, system_logs, hist, nruns, latest, subs, queue, requests, events_up>>

\* Lines 211-214: if the Job still exists, status failed, committed.
ExceptMark(r) ==
    /\ run[r].pc = "except"
    /\ IF JobOf(r) # NoJob
       THEN /\ jobs' = [jobs EXCEPT ![run[r].job_id].status = "failed"]
            /\ run' = [run EXCEPT ![r].pc = "except_log"]
       ELSE /\ run' = [run EXCEPT ![r].pc = "except_raise"]
            /\ UNCHANGED jobs
    /\ UNCHANGED <<job_logs, system_logs, hist, nruns, latest, subs, queue, requests, events_up>>

\* ExceptLog without the log entry.
ExceptLogSilent(r) ==
    /\ run[r].pc = "except_log"
    /\ run' = [run EXCEPT ![r].pc = "except_raise"]
    /\ UNCHANGED <<jobs, job_logs, system_logs, hist, nruns, latest, subs, queue, requests, events_up>>

\* Line 215.
ExceptLog(r) ==
    /\ run[r].pc = "except_log"
    /\ job_logs' = _log(job_logs, run[r].job_id, FailedMessage(run[r].exc))
    /\ run' = [run EXCEPT ![r].pc = "except_raise"]
    /\ UNCHANGED <<jobs, system_logs, hist, nruns, latest, subs, queue, requests, events_up>>

\* Lines 216-222: the system event, then the exception leaves the task.
ExceptRaise(r) ==
    /\ run[r].pc = "except_raise"
    /\ system_logs' = record_system_event(system_logs, "ERROR", "worker",
                                          "Migration job crashed", run[r].job_id)
    /\ run' = [run EXCEPT ![r].pc = "done",
                          ![r].result = [kind |-> "raise", ok |-> FALSE, exc |-> run[r].exc]]
    /\ UNCHANGED <<jobs, job_logs, hist, nruns, latest, subs, queue, requests, events_up>>

\* ------------------------------------------------------------- stream_job

\* A row of fetch() that carries no JobLog (the outer join found none).
NoLog == [id |-> NoId, message |-> << >>]

\* fetch with an inner join: a job with no log entry yields no row.
fetchInner(job_id) ==
    IF jobs[job_id] = NoJob \/ job_logs[job_id] = << >> THEN << >>
    ELSE [i \in 1..Len(job_logs[job_id]) |-> [id |-> i, message |-> job_logs[job_id][i]]]

\* Lines 598-604: select(Job, JobLog) outer join, where Job.id == job_id, order
\* by JobLog.id: no row when the job has no row, one row without a log when it
\* has no log entry, else one row per log entry.  The id of a log entry is its
\* position in the job's log (ids grow with every insert).
fetch(job_id) ==
    IF jobs[job_id] = NoJob THEN << >>
    ELSE IF job_logs[job_id] = << >> THEN << NoLog >>
    ELSE [i \in 1..Len(job_logs[job_id]) |-> [id |-> i, message |-> job_logs[job_id][i]]]

\* SessionJob whose status is refreshed by every select while its progress
\* keeps the value of the first load.
SessionJobTorn(s, job_id) ==
    [status |-> jobs[job_id].status,
     progress |-> IF subs[s].job # NoJob THEN subs[s].job.progress ELSE jobs[job_id].progress]

\* The Job entity the rows of a fetch carry.  The session of the request is
\* never committed, rolled back or expired while the generator runs, and the
\* generator keeps its reference to the entity, so a Job the session has
\* loaded stays in its identity map and a later select returns that entity
\* with the attributes of its first load.
SessionJob(s, job_id) ==
    IF subs[s].job # NoJob THEN subs[s].job
    ELSE [status |-> jobs[job_id].status, progress |-> jobs[job_id].progress]

\* ScanRows that also takes the entry whose id equals last_id.
RECURSIVE ScanRowsInclusive(_, _, _)
ScanRowsInclusive(rows, last_id, out) ==
    IF rows = << >> THEN [last_id |-> last_id, out |-> out]
    ELSE LET log == Head(rows)
         IN IF log # NoLog /\ log.id >= last_id
            THEN ScanRowsInclusive(Tail(rows), log.id,
                          Append(out, [event |-> "data", id |-> log.id, message |-> log.message]))
            ELSE ScanRowsInclusive(Tail(rows), last_id, out)

\* Lines 611-615: one data event per row whose log id is above last_id.
RECURSIVE ScanRows(_, _, _)
ScanRows(rows, last_id, out) ==
    IF rows = << >> THEN [last_id |-> last_id, out |-> out]
    ELSE LET log == Head(rows)
         IN IF log # NoLog /\ log.id > last_id
            THEN ScanRows(Tail(rows), log.id,
                          Append(out, [event |-> "data", id |-> log.id, message |-> log.message]))
            ELSE ScanRows(Tail(rows), last_id, out)

\* IsTerminal that takes only failed for an end.
IsFailedOnly(status) == status \in {"failed"}

\* IsTerminal that also takes running for an end.
IsTerminalOrRunning(status) == status \in {"completed", "failed", "running"}

\* Line 619: job.status in ("completed", "failed").
IsTerminal(status) == status \in {"completed", "failed"}

\* Lines 590-596: GET /api/jobs/{job_id}/stream: the token is checked (401 when
\* it is not valid), then the generator starts with last_id = 0.
Subscribe(s, job_id) ==
    /\ subs[s].pc # "polling"
    /\ \E authorised \in BOOLEAN :
          LET fresh == [NoSub EXCEPT !.job_id = job_id, !.again = subs[s].pc # "idle"]
          IN subs' = [subs EXCEPT ![s] =
                        IF authorised
                        THEN [fresh EXCEPT !.pc = "polling"]
                        ELSE [fresh EXCEPT !.pc = "rejected"]]
    /\ UNCHANGED <<jobs, job_logs, system_logs, run, hist, nruns, latest, queue, requests, events_up>>

\* Lines 608-622: one turn of the while loop: fetch, the data events, the
\* progress event, and, on a terminal status, the done event and the break.
Poll(s) ==
    /\ subs[s].pc = "polling"
    /\ LET job_id == subs[s].job_id
           rows == fetch(job_id)
           job == IF rows = << >> THEN NoJob ELSE SessionJob(s, job_id)
           scan == ScanRows(rows, subs[s].last_id, << >>)
           ended == job # NoJob /\ IsTerminal(job.status)
       IN subs' = [subs EXCEPT ![s].pc = IF ended THEN "ended" ELSE "polling",
                               ![s].last_id = scan.last_id,
                               ![s].job = job,
                               ![s].polled = TRUE,
                               ![s].data = @ \o scan.out,
                               ![s].progress = IF job # NoJob THEN job.progress ELSE @,
                               ![s].done = IF ended THEN job.status ELSE @]
    /\ UNCHANGED <<jobs, job_logs, system_logs, run, hist, nruns, latest, queue, requests, events_up>>

\* The caller closes the connection: the generator is closed where it waits.
Cancel(s) ==
    /\ subs[s].pc = "polling"
    /\ subs' = [subs EXCEPT ![s].pc = "cancelled"]
    /\ UNCHANGED <<jobs, job_logs, system_logs, run, hist, nruns, latest, queue, requests, events_up>>

\* ------------------------------------------------- create_job, create_batch

\* The id the store gives the next Job row (autoincrement; no row is deleted).
NextJobId == CHOOSE j \in JobIds : jobs[j] = NoJob /\ \A k \in JobIds : k < j => jobs[k] # NoJob

\* PersistJob whose commit never reaches the store.
PersistJobUncommitted(table, job_id, row) == table

\* db.add(job); db.commit(): the row is in the store for every session.
PersistJob(table, job_id, row) == [table EXCEPT ![job_id] = row]

\* The request ends with an HTTP error; event is the text of the system
\* event recorded before it, None when the handler records none.
Reject(q, code, event) ==
    /\ requests' = [requests EXCEPT ![q].pc = "done", ![q].response = code]
    /\ system_logs' = IF event = None THEN system_logs
                      ELSE record_system_event(system_logs, "ERROR", "job", event, NoId)

\* main.py 394-465: POST /api/jobs up to the commit of the new Job.
create_job(q, source_provider_id, destination_provider_id, source_vm_id, target_node) ==
    /\ requests[q].pc = "idle"
    /\ LET source_provider == _load_provider(source_provider_id)
           destination_provider == _load_provider(destination_provider_id)
           vm == _load_vm(source_vm_id)
       IN IF source_provider = NoProvider \/ destination_provider = NoProvider
          THEN Reject(q, "404", None) /\ UNCHANGED jobs
          ELSE IF vm = NoVM
          THEN Reject(q, "404", "Failed to queue job: source VM not found") /\ UNCHANGED jobs
          ELSE IF vm.provider_id # source_provider.id
          THEN Reject(q, "400", "Failed to queue job: provider mismatch") /\ UNCHANGED jobs
          ELSE IF source_provider.type # "vcenter"
          THEN Reject(q, "400", "Failed to queue job: source provider must be VMware vCenter")
               /\ UNCHANGED jobs
          ELSE IF destination_provider.type # "proxmox"
          THEN Reject(q, "400", "Failed to queue job: destination provider must be Proxmox VE")
               /\ UNCHANGED jobs
          ELSE /\ \E j \in JobIds : jobs[j] = NoJob
               /\ jobs' = PersistJob(jobs, NextJobId,
                                     Job(vm.name, source_provider.id, destination_provider.id,
                                         vm.id, target_node))
               /\ requests' = [requests EXCEPT ![q].pc = "dispatch", ![q].job_id = NextJobId]
               /\ UNCHANGED system_logs
    /\ UNCHANGED <<job_logs, run, hist, nruns, latest, subs, queue, events_up>>

\* main.py 467: execute_migration_job.apply_async(args=[job.id]).
create_job_dispatch(q) ==
    /\ requests[q].pc = "dispatch"
    /\ queue' = queue \cup {requests[q].job_id}
    /\ requests' = [requests EXCEPT ![q].pc = "queued"]
    /\ UNCHANGED <<jobs, job_logs, system_logs, run, hist, nruns, latest, subs, events_up>>

\* main.py 468-481: the system event and the response.
create_job_return(q) ==
    /\ requests[q].pc = "queued"
    /\ system_logs' = record_system_event(system_logs, "INFO", "job", "Queued migration job",
                                          requests[q].job_id)
    /\ requests' = [requests EXCEPT ![q].pc = "done", ![q].response = "200",
                                    ![q].out = <<requests[q].job_id>>]
    /\ UNCHANGED <<jobs, job_logs, run, hist, nruns, latest, subs, queue, events_up>>

\* main.py 483-525: POST /api/jobs/batch up to the loop over the VM ids.
create_batch(q, source_provider_id, destination_provider_id, source_vm_ids, target_node) ==
    /\ requests[q].pc = "idle"
    /\ LET source_provider == _load_provider(source_provider_id)
           destination_provider == _load_provider(destination_provider_id)
           missing == SelectSeq(source_vm_ids, LAMBDA vm_id : _load_vm(vm_id) = NoVM)
       IN IF source_provider = NoProvider \/ destination_provider = NoProvider
          THEN Reject(q, "404", None)
          ELSE IF source_provider.type # "vcenter" \/ destination_provider.type # "proxmox"
          THEN Reject(q, "400", "Failed to queue batch jobs: invalid provider types")
          ELSE IF missing # << >>
          THEN Reject(q, "404", "Failed to queue batch jobs: missing VMs")
          ELSE /\ requests' = [requests EXCEPT ![q] =
                                 [IdleRequest EXCEPT !.pc = "batch_loop",
                                                     !.source_provider_id = source_provider_id,
                                                     !.destination_provider_id =
                                                         destination_provider_id,
                                                     !.source_vm_ids = source_vm_ids,
                                                     !.target_node = target_node]]
               /\ UNCHANGED system_logs
    /\ UNCHANGED <<jobs, job_logs, run, hist, nruns, latest, subs, queue, events_up>>

\* main.py 526-544 and 560: the next VM id of the loop: the provider check and
\* the commit of its Job; after the last one, the response.
create_batch_next(q) ==
    /\ requests[q].pc = "batch_loop"
    /\ IF requests[q].source_vm_ids = << >>
       THEN /\ requests' = [requests EXCEPT ![q].pc = "done", ![q].response = "200"]
            /\ UNCHANGED jobs
       ELSE LET vm == _load_vm(Head(requests[q].source_vm_ids))
            IN IF vm.provider_id # requests[q].source_provider_id
               THEN /\ requests' = [requests EXCEPT ![q].pc = "done", ![q].response = "400"]
                    /\ UNCHANGED jobs
               ELSE /\ \E j \in JobIds : jobs[j] = NoJob
                    /\ jobs' = PersistJob(jobs, NextJobId,
                                          Job(vm.name, requests[q].source_provider_id,
                                              requests[q].destination_provider_id, vm.id,
                                              requests[q].target_node))
                    /\ requests' = [requests EXCEPT ![q].pc = "batch_dispatch",
                                                    ![q].job_id = NextJobId]
    /\ UNCHANGED <<job_logs, system_logs, run, hist, nruns, latest, subs, queue, events_up>>

\* main.py 545: execute_migration_job.apply_async(args=[job.id]).
create_batch_dispatch(q) ==
    /\ requests[q].pc = "batch_dispatch"
    /\ queue' = queue \cup {requests[q].job_id}
    /\ requests' = [requests EXCEPT ![q].pc = "batch_queued"]
    /\ UNCHANGED <<jobs, job_logs, system_logs, run, hist, nruns, latest, subs, events_up>>

\* main.py 546-559: the system event, out.append(job), the next VM id.
create_batch_append(q) ==
    /\ requests[q].pc = "batch_queued"
    /\ system_logs' = record_system_event(system_logs, "INFO", "job", "Queued migration job",
                                          requests[q].job_id)
    /\ requests' = [requests EXCEPT ![q].pc = "batch_loop",
                                    ![q].out = Append(@, requests[q].job_id),
                                    ![q].source_vm_ids = Tail(@)]
    /\ UNCHANGED <<jobs, job_logs, run, hist, nruns, latest, subs, queue, events_up>>

\* A worker takes a task message off the queue and calls the task with its id.
Deliver(r, job_id) ==
    /\ job_id \in queue
    /\ queue' = queue \ {job_id}
    /\ Start(r, job_id)

\* ------------------------------------------------------------ specifications

\* One step of the execution in worker slot r.
RunStep(r) ==
    \/ LogStart(r) \/ Preload(r) \/ CheckRoles(r)
    \/ LogSource(r) \/ FetchInventory(r) \/ CheckSource(r)
    \/ LogDest(r) \/ FetchNodes(r) \/ CheckDest(r)
    \/ Plan(r) \/ LogPlan(r) \/ Progress30(r)
    \/ PhaseLog(r) \/ PhaseCheck(r) \/ PhaseIncr(r) \/ PhaseNotify(r)
    \/ LogCompleted(r) \/ Complete(r)
    \/ ExceptMark(r) \/ ExceptLog(r) \/ ExceptRaise(r)

\* An execution of job_id is in flight.
InFlight(job_id) == \E r \in RunIds : Active(r) /\ run[r].job_id = job_id

\* A delivery the way the submission path produces them: no execution of the
\* same job id is in flight (create_job and create_batch dispatch every new
\* id once).  A later delivery of a finished id is possible.
Dispatch(r, job_id) == ~InFlight(job_id) /\ Start(r, job_id) /\ UNCHANGED queue

Next == \E r \in RunIds : (\E job_id \in JobIds : Dispatch(r, job_id)) \/ RunStep(r)

Spec == Init /\ [][Next]_vars

\* The executions run to their end: a worker that has taken the task keeps
\* executing it (one process per slot, nothing in the task waits on another).
FairSpec == Spec /\ \A r \in RunIds : WF_vars(RunStep(r))

\* Deliveries with no regard to what is in flight (nothing in the task or in
\* apply_async looks), for Job rows whose context fails validation: the
\* executions end in the set-up part of the task.
ValidContext(job) ==
    /\ _load_provider(job.source_provider_id) # NoProvider
    /\ _load_provider(job.destination_provider_id) # NoProvider
    /\ _load_vm(job.source_vm_id) # NoVM
    /\ _load_provider(job.source_provider_id).type = "vcenter"
    /\ _load_provider(job.destination_provider_id).type = "proxmox"

InitDuplicate == Init /\ ~ValidContext(jobs[1])

SetupStep(r) ==
    \/ LogStart(r) \/ Preload(r) \/ CheckRoles(r)
    \/ ExceptMark(r) \/ ExceptLog(r) \/ ExceptRaise(r)

Redeliver(r, job_id) == Start(r, job_id) /\ UNCHANGED queue

NextDuplicate == \E r \in RunIds : (\E job_id \in JobIds : Redeliver(r, job_id)) \/ SetupStep(r)

SpecDuplicate == InitDuplicate /\ [][NextDuplicate]_vars

\* Subscriptions next to the executions of a job whose context resolves.
InitStream ==
    /\ Init
    /\ jobs[1].source_provider_id = 1 /\ jobs[1].source_vm_id = 1
    /\ jobs[1].destination_provider_id \in {1, 2}
    /\ jobs[1].target_node # ""

SubStep(s) == Poll(s) \/ Cancel(s)

\* The delivery that follows the submission of a job: the job is still queued.
DispatchQueued(r, job_id) == jobs[job_id].status = "queued" /\ Dispatch(r, job_id)

NextStream ==
    \/ \E r \in RunIds : (\E job_id \in JobIds : DispatchQueued(r, job_id)) \/ RunStep(r)
    \/ \E s \in SubIds : (\E job_id \in JobIds : Subscribe(s, job_id)) \/ SubStep(s)

SpecStream == InitStream /\ [][NextStream]_vars

\* The executions run to their end and every open generator keeps polling
\* (asyncio.sleep(1.0) returns).
FairSpecStream ==
    /\ SpecStream
    /\ \A r \in RunIds : WF_vars(RunStep(r))
    /\ \A s \in SubIds : WF_vars(Poll(s))

\* The target_node the two jobs of the parallel executions were submitted with.
SubmittedTarget == (1 :> None) @@ (2 :> "pve-x")

\* Two jobs for the same VM, submitted by two calls and each delivered once
\* to its own worker: the first names no target, the second names one and may
\* have a destination that is not a Proxmox VE.
InitParallel ==
    /\ \E d \in {1, 2} :
          jobs = [j \in JobIds |-> IF j = 1 THEN Job("db-01", 1, 2, 1, SubmittedTarget[j])
                                    ELSE Job("db-01", 1, d, 1, SubmittedTarget[j])]
    /\ job_logs = [j \in JobIds |-> << >>]
    /\ system_logs = << >>
    /\ run = [r \in RunIds |-> IdleRun]
    /\ hist = [r \in RunIds |-> NoHist]
    /\ nruns = 0
    /\ latest = [j \in JobIds |-> 0]
    /\ subs = [s \in SubIds |-> NoSub]
    /\ queue = {}
    /\ requests = [q \in RequestIds |-> IdleRequest]
    /\ events_up = TRUE

NextParallel == \E r \in RunIds : (\E job_id \in JobIds : DispatchQueued(r, job_id)) \/ RunStep(r)

SpecParallel == InitParallel /\ [][NextParallel]_vars

\* The same two jobs, executed one after the other by a single busy worker,
\* while the store of the system events comes and goes.
InitEvents ==
    /\ \E d \in {1, 2} :
          jobs = [j \in JobIds |-> IF j = 1 THEN Job("db-01", 1, 2, 1, SubmittedTarget[j])
                                    ELSE Job("db-01", 1, d, 1, SubmittedTarget[j])]
    /\ job_logs = [j \in JobIds |-> << >>]
    /\ system_logs = << >>
    /\ run = [r \in RunIds |-> IdleRun]
    /\ hist = [r \in RunIds |-> NoHist]
    /\ nruns = 0
    /\ latest = [j \in JobIds |-> 0]
    /\ subs = [s \in SubIds |-> NoSub]
    /\ queue = {}
    /\ requests = [q \in RequestIds |-> IdleRequest]
    /\ events_up \in BOOLEAN

\* The system_logs table becomes unreachable, or reachable again.
EventStoreFlips ==
    /\ events_up' = ~events_up
    /\ UNCHANGED <<jobs, job_logs, system_logs, run, hist, nruns, latest, subs, queue, requests>>

\* A delivery to a worker pool that runs one task at a time.
DispatchNext(r, job_id) == (\A w \in RunIds : ~Active(w)) /\ DispatchQueued(r, job_id)

NextEvents ==
    \/ \E r \in RunIds : (\E job_id \in JobIds : DispatchNext(r, job_id)) \/ RunStep(r)
    \/ EventStoreFlips

SpecEvents == InitEvents /\ [][NextEvents]_vars

\* The submission path on an empty jobs table: two calls, then the workers
\* take the messages and begin the executions.
InitSubmit ==
    /\ jobs = [j \in JobIds |-> NoJob]
    /\ job_logs = [j \in JobIds |-> << >>]
    /\ system_logs = << >>
    /\ run = [r \in RunIds |-> IdleRun]
    /\ hist = [r \in RunIds |-> NoHist]
    /\ nruns = 0
    /\ latest = [j \in JobIds |-> 0]
    /\ subs = [s \in SubIds |-> NoSub]
    /\ queue = {}
    /\ requests = [q \in RequestIds |-> IdleRequest]
    /\ events_up = TRUE

RequestStep(q) ==
    \/ \E s \in PayloadProviders, d \in PayloadProviders, v \in PayloadVMs, t \in PayloadTargets :
          create_job(q, s, d, v, t)
    \/ create_job_dispatch(q) \/ create_job_return(q)
    \/ \E s \in PayloadProviders, d \in PayloadProviders, v \in PayloadVMLists,
          t \in PayloadTargets :
          create_batch(q, s, d, v, t)
    \/ create_batch_next(q) \/ create_batch_dispatch(q) \/ create_batch_append(q)

BeginStep(r) == LogStart(r) \/ Preload(r) \/ CheckRoles(r)

NextSubmit ==
    \/ \E q \in RequestIds : RequestStep(q)
    \/ \E r \in RunIds : (\E job_id \in JobIds : Deliver(r, job_id)) \/ BeginStep(r)

SpecSubmit == InitSubmit /\ [][NextSubmit]_vars

\* ------------------------------------------------------------- vocabulary

Terminal == {"completed", "failed"}

Last(seq) == seq[Len(seq)]

\* The execution in slot r has ended and its job has a row.
Ended(r) == run[r].pc = "done" /\ JobOf(r) # NoJob

\* No execution of the same job id was started after the one in slot r.
Latest(r) == latest[run[r].job_id] = hist[r].seq

\* The execution in slot r ended and nothing has run on its job since.
EndedLast(r) == Ended(r) /\ Latest(r)

\* ------------------------------------------------------------------ claims

\* C1: once a job's persisted status is completed or failed, no later step of
\* the system changes that job's status or its progress.
TerminalStatusIsFinal ==
    [][\A j \in JobIds :
          jobs[j].status \in Terminal =>
             /\ jobs'[j].status = jobs[j].status
             /\ jobs'[j].progress = jobs[j].progress]_vars

\* C2: at no time are two executions of the task active for the same job id.
AtMostOneExecutionPerJob ==
    \A r1 \in RunIds, r2 \in RunIds :
       (Active(r1) /\ Active(r2) /\ run[r1].job_id = run[r2].job_id) => r1 = r2

\* C3: a job's persisted progress is always an integer in [0, 100], and within
\* a run (after the write that sets status running and progress 0) every write
\* of progress is at least the value persisted before it.
ProgressBoundedAndMonotone ==
    /\ [](\A j \in JobIds : jobs[j] # NoJob => jobs[j].progress \in 0..100)
    /\ [][\A j \in JobIds :
             (jobs[j] # NoJob /\ jobs'[j].progress < jobs[j].progress) =>
                (jobs[j].status # "running" /\ jobs'[j].status = "running")]_vars

\* C3 witness: a run has raised progress several times inside the pipeline.
ProgressRaisedInPipeline ==
    \E r \in RunIds : Active(r) /\ Len(hist[r].persisted) >= 5 /\ JobOf(r).progress = 40

\* C4: when the exception is about to leave the task the job's status is
\* already failed, and when an execution of an existing job has ended the
\* status is completed or failed (failed if it ended by an exception), never
\* running.
FailurePersistedBeforeRaise ==
    \A r \in RunIds :
       /\ (run[r].pc = "except_raise" /\ JobOf(r) # NoJob) => JobOf(r).status = "failed"
       /\ EndedLast(r) =>
             /\ JobOf(r).status \in Terminal
             /\ run[r].result.kind = "raise" => JobOf(r).status = "failed"

\* C4 witness: an execution ended by an exception that only the outer guard
\* turned into status failed (the pipeline's progress notification raised).
EndedByPipelineFailure ==
    \E r \in RunIds :
       /\ EndedLast(r) /\ run[r].result.kind = "raise"
       /\ run[r].exc.type = "ConnectionError" /\ JobOf(r).status = "failed"

\* C5: every execution of an existing job eventually ends, with the job's
\* status completed or failed.
ExecutionTerminates ==
    \A r \in RunIds :
       Active(r) ~> (run[r].pc = "done" /\ JobOf(r).status \in Terminal)

\* C5 witness: an execution went through the whole pipeline and ended.
EndedCompleted ==
    \E r \in RunIds :
       EndedLast(r) /\ run[r].result.ok /\ JobOf(r).status = "completed"
                    /\ JobOf(r).progress = 100

\* The providers and the VM of the job all resolve.
Resolved(job) ==
    /\ _load_provider(job.source_provider_id) # NoProvider
    /\ _load_provider(job.destination_provider_id) # NoProvider
    /\ _load_vm(job.source_vm_id) # NoVM

\* The job names a source provider that is not a vCenter, or a destination
\* provider that is not a Proxmox VE.
RoleViolation(job) ==
    \/ /\ _load_provider(job.source_provider_id) # NoProvider
       /\ _load_provider(job.source_provider_id).type # "vcenter"
    \/ /\ _load_provider(job.destination_provider_id) # NoProvider
       /\ _load_provider(job.destination_provider_id).type # "proxmox"

RoleMessages ==
    {<<"Failed", "ValueError", "Source provider must be a vCenter instance.">>,
     <<"Failed", "ValueError", "Destination provider must be a Proxmox VE instance.">>}

LogOf(r) == job_logs[run[r].job_id]

\* C6 as stated: a job whose source provider is not a vCenter, or whose
\* destination provider is not a Proxmox VE, ends failed with progress 0 and a
\* log entry describing the role violation.
RoleViolationFailsWithRoleEntry ==
    \A r \in RunIds :
       (EndedLast(r) /\ RoleViolation(JobOf(r))) =>
          /\ JobOf(r).status = "failed"
          /\ JobOf(r).progress = 0
          /\ \E i \in 1..Len(LogOf(r)) : LogOf(r)[i] \in RoleMessages

\* C6 amended: such a job always ends failed with progress 0; the entry that
\* ends its log describes the role violation when its providers and its VM
\* all resolve, and the missing context when one of them does not.
RoleViolationFails ==
    \A r \in RunIds :
       (EndedLast(r) /\ RoleViolation(JobOf(r))) =>
          /\ JobOf(r).status = "failed"
          /\ JobOf(r).progress = 0
          /\ Len(LogOf(r)) > 0
          /\ IF Resolved(JobOf(r))
             THEN Last(LogOf(r)) \in RoleMessages
             ELSE Last(LogOf(r)) =
                     <<"Failed", "ValueError", "Job is missing provider or VM information.">>

\* C6 witness: the job's context resolves, its destination is not a Proxmox
\* VE, and its execution has ended.
EndedOnDestinationRole ==
    \E r \in RunIds :
       /\ EndedLast(r) /\ Resolved(JobOf(r))
       /\ _load_provider(JobOf(r).source_provider_id).type = "vcenter"
       /\ _load_provider(JobOf(r).destination_provider_id).type = "vcenter"
       /\ JobOf(r).status = "failed"

\* C7: an execution whose fetch_inventory call failed ends with status failed,
\* progress below 10 and a last log entry naming the connector's error.
SourceFailureFails ==
    \A r \in RunIds :
       (EndedLast(r) /\ hist[r].source \in SourceOutcomes \ {"ok"}) =>
          /\ JobOf(r).status = "failed"
          /\ JobOf(r).progress < 10
          /\ Len(LogOf(r)) > 0
          /\ Last(LogOf(r))[1] = "Failed"
          /\ Last(LogOf(r))[2] = hist[r].source

\* C7 witness: fetch_inventory raised VCenterError and the execution ended.
EndedOnSourceError ==
    \E r \in RunIds :
       EndedLast(r) /\ hist[r].source = "VCenterError" /\ run[r].result.kind = "raise"

\* C8: an execution whose fetch_inventory succeeded and whose fetch_nodes
\* raised ProxmoxError ends with status failed, progress exactly 10, progress
\* 20 never persisted by it, and a last log entry with the connectivity error.
DestinationFailureFails ==
    \A r \in RunIds :
       (EndedLast(r) /\ hist[r].source = "ok" /\ hist[r].destination = "ProxmoxError") =>
          /\ JobOf(r).status = "failed"
          /\ JobOf(r).progress = 10
          /\ \A i \in 1..Len(hist[r].persisted) : hist[r].persisted[i] # 20
          /\ Len(LogOf(r)) > 0
          /\ Last(LogOf(r)) = <<"Failed", "ProxmoxError",
                                "Unable to connect to Proxmox with stored credentials.">>

\* C8 witness: fetch_nodes raised ProxmoxError and the execution ended.
EndedOnDestinationError ==
    \E r \in RunIds :
       /\ EndedLast(r) /\ hist[r].source = "ok" /\ hist[r].destination = "ProxmoxError"
       /\ run[r].result.kind = "raise"

\* C9: an execution that finds no target_node on the job and gets an empty
\* list from fetch_nodes ends with status failed, progress exactly 20 and a
\* last log entry saying that no destination node is available.
NoTargetFails ==
    \A r \in RunIds :
       (/\ EndedLast(r) /\ hist[r].source = "ok" /\ hist[r].destination = "ok"
        /\ hist[r].nodes = << >> /\ ~Truthy(hist[r].explicit)) =>
          /\ JobOf(r).status = "failed"
          /\ JobOf(r).progress = 20
          /\ Len(LogOf(r)) > 0
          /\ Last(LogOf(r)) = <<"Failed", "ValueError",
                "Destination node not specified and Proxmox cluster returned no nodes.">>

\* C9 witness: both connectors answered, no node came back, the job names
\* no target, and the execution ended.
EndedWithoutTarget ==
    \E r \in RunIds :
       /\ EndedLast(r) /\ hist[r].destination = "ok" /\ hist[r].nodes = << >>
       /\ JobOf(r).target_node = None /\ run[r].result.kind = "raise"

\* The execution in slot r has resolved its target (it is past line 163).
Planned(r) ==
    run[r].pc \in {"log_plan", "progress_30", "phase_log", "phase_check", "phase_incr",
                   "phase_notify", "log_completed", "complete"}
    \/ (run[r].pc = "done" /\ run[r].result.ok)
    \/ (run[r].pc \in {"except", "except_log", "except_raise"} /\ Len(hist[r].persisted) >= 3)

\* C10: an execution that passed both connectivity checks on a job with an
\* explicit target_node uses that value whatever list fetch_nodes returned:
\* the target it works with, the target in its result and the persisted
\* target_node all equal the explicit value.
ExplicitTargetWins ==
    \A r \in RunIds :
       (Planned(r) /\ Truthy(hist[r].explicit)) =>
          /\ run[r].target_node = hist[r].explicit
          /\ JobOf(r).target_node = hist[r].explicit
          /\ (run[r].pc = "done" /\ run[r].result.ok) =>
                run[r].result.target_node = hist[r].explicit

\* C10 witness: the job names pve-x, fetch_nodes returned other nodes, and
\* the execution returned its result.
EndedWithExplicitTarget ==
    \E r \in RunIds :
       /\ run[r].pc = "done" /\ run[r].result.ok
       /\ hist[r].explicit = "pve-x" /\ hist[r].nodes = <<"pve-b", "pve-a">>
       /\ run[r].result.target_node = "pve-x"

\* The log entries the execution in slot r has appended (no other execution
\* of its job ran meanwhile).
RunLog(r) == SubSeq(LogOf(r), hist[r].first_log + 1, Len(LogOf(r)))

\* The job of the execution in slot r had valid context and roles, both
\* connectors answered, the job named no target, fetch_nodes returned at
\* least one node, and no progress notification was refused.
FirstCandidateCase(r) ==
    /\ ValidContext(JobOf(r))
    /\ hist[r].source = "ok" /\ hist[r].destination = "ok"
    /\ hist[r].nodes # << >> /\ ~Truthy(hist[r].explicit)
    /\ run[r].exc.type # "ConnectionError"

PhaseEntries == [i \in 1..Len(phases) |-> <<phases[i][1]>>]

\* C12 as stated: the log of an execution that ran to completed consists of
\* exactly one entry per pipeline phase (five) plus three set-up entries.
CompletedLogHasEightEntries ==
    \A r \in RunIds :
       (EndedLast(r) /\ run[r].result.ok) => Len(RunLog(r)) = Len(phases) + 3

\* C12 amended: the entries an execution that ran to completed appended are,
\* in this order: the four set-up entries (start, source connectivity,
\* destination connectivity, migration plan), exactly one entry per pipeline
\* phase in pipeline order, and the completion entry.
CompletedLogEntries ==
    \A r \in RunIds :
       (EndedLast(r) /\ run[r].result.ok) =>
          RunLog(r) =
             << <<"Starting migration workflow.">>,
                <<"Validating connectivity with vCenter source.">>,
                <<"Validating connectivity with Proxmox destination.">>,
                <<"Prepared migration plan", "db-01", "vm-101", run[r].target_node>> >>
             \o PhaseEntries
             \o << <<"Migration workflow completed">> >>

\* C12 witness: an execution ran to completed and appended ten entries.
EndedWithFullLog ==
    \E r \in RunIds :
       EndedLast(r) /\ run[r].result.ok /\ Len(RunLog(r)) = Len(phases) + 5

\* C17: an execution of a job id that has no Job row records one ERROR system
\* event for the id and returns without raising; it creates no Job row, writes
\* no job log entry and changes no job's status or progress.
MissingJobReportedOnly ==
    [][\A r \in RunIds, j \in JobIds :
          (hist'[r].seq # hist[r].seq /\ run'[r].job_id = j /\ jobs[j] = NoJob) =>
             /\ jobs' = jobs
             /\ job_logs' = job_logs
             /\ system_logs' = Append(system_logs,
                                      [level |-> "ERROR", component |-> "worker",
                                       text |-> "Migration job not found", job_id |-> j])
             /\ run'[r].pc = "done"
             /\ run'[r].result = [kind |-> "return", ok |-> FALSE, error |-> "Job not found"]]_vars

\* C17 witness: an execution of id 2, which has no row, has returned.
MissingJobReturned ==
    \E r \in RunIds :
       /\ run[r].pc = "done" /\ run[r].job_id = 2 /\ jobs[2] = NoJob
       /\ run[r].result.kind = "return" /\ ~run[r].result.ok
       /\ Len(system_logs) > 0 /\ job_logs[2] = << >>

\* C18: an execution of a job whose source provider, destination provider or
\* source VM does not resolve ends with status failed, progress 0 and a last
\* log entry describing the missing context.
MissingContextFails ==
    \A r \in RunIds :
       (EndedLast(r) /\ ~Resolved(JobOf(r))) =>
          /\ JobOf(r).status = "failed"
          /\ JobOf(r).progress = 0
          /\ Len(RunLog(r)) = 2
          /\ Last(LogOf(r)) =
                <<"Failed", "ValueError", "Job is missing provider or VM information.">>

\* C18 witness: the providers resolve, the VM id has no row, and the
\* execution has ended.
EndedOnMissingVM ==
    \E r \in RunIds :
       /\ EndedLast(r) /\ JobOf(r).source_vm_id = 2
       /\ _load_provider(JobOf(r).source_provider_id) # NoProvider
       /\ _load_provider(JobOf(r).destination_provider_id) # NoProvider
       /\ JobOf(r).status = "failed"

\* The execution in slot r is inside the phase pipeline.
InPipeline(r) == run[r].pc \in {"phase_log", "phase_check", "phase_incr", "phase_notify"}

\* C20: in the phase pipeline every increment writes min(progress + 5, target
\* of the current phase), which raises progress by at least 1 and at most 5;
\* progress never exceeds the current phase's target; the increment is in the
\* store when the notification is sent, and the notification carries exactly
\* the value just persisted.
IncrementsClampedAndNotified ==
    /\ [](\A r \in RunIds : InPipeline(r) => JobOf(r).progress <= target(r))
    /\ [](\A r \in RunIds :
             run[r].pc = "phase_notify" => JobOf(r).progress = Last(hist[r].persisted))
    /\ [][\A r \in RunIds :
             LET j == run[r].job_id
             IN /\ (run[r].pc = "phase_incr" /\ run'[r].pc # "phase_incr") =>
                      /\ jobs'[j].progress = min(jobs[j].progress + 5, target(r))
                      /\ jobs'[j].progress - jobs[j].progress \in 1..5
                      /\ run'[r].pc = "phase_notify"
                /\ (run[r].pc = "phase_notify" /\ run'[r].pc \notin {"phase_notify", "except"}) =>
                      /\ run'[r].meta.progress = Last(hist[r].persisted)
                      /\ run'[r].meta.progress = jobs[j].progress
                      /\ run'[r].meta.step = step(r)]_vars

\* C20 witness: the notification after the increment to 65 has been sent.
NotifiedAtPhaseTarget ==
    \E r \in RunIds :
       /\ InPipeline(r) /\ run[r].meta.progress = 65
       /\ Last(hist[r].persisted) = 65 /\ JobOf(r).progress = 65

\* The data events of the whole log of job j, oldest first.
History(j) ==
    [i \in 1..Len(job_logs[j]) |-> [event |-> "data", id |-> i, message |-> job_logs[j][i]]]

\* The step is the first turn of the loop of the generator in slot s.
FirstPoll(s) == subs[s].pc = "polling" /\ ~subs[s].polled /\ subs'[s].polled

\* C13: the first poll of a fresh subscription to a job that is completed
\* emits every log entry of the job exactly once, oldest first, then a
\* progress event carrying 100, then a done event carrying completed, and the
\* subscription ends; the same holds when the caller had subscribed before.
CompletedJobReplayed ==
    [][\A s \in SubIds :
          LET j == subs[s].job_id
          IN (FirstPoll(s) /\ jobs[j].status = "completed") =>
                /\ subs'[s].data = History(j)
                /\ subs'[s].progress = 100
                /\ subs'[s].done = "completed"
                /\ subs'[s].pc = "ended"]_vars

\* C13 witness: a second subscription of the same caller has ended on the
\* completed job with the whole history.
ResubscribedToCompleted ==
    \E s \in SubIds :
       /\ subs[s].pc = "ended" /\ subs[s].again /\ subs[s].done = "completed"
       /\ Len(subs[s].data) = Len(phases) + 5 /\ subs[s].progress = 100

\* C14: within one subscription no log entry is emitted twice and the
\* entries are emitted in strictly increasing order of their ids, each with
\* the message of that entry.
DataEventsIncrease ==
    \A s \in SubIds :
       /\ \A i \in 1..Len(subs[s].data), k \in 1..Len(subs[s].data) :
             i < k => subs[s].data[i].id < subs[s].data[k].id
       /\ \A i \in 1..Len(subs[s].data) :
             /\ subs[s].data[i].id \in 1..Len(job_logs[subs[s].job_id])
             /\ subs[s].data[i].message = job_logs[subs[s].job_id][subs[s].data[i].id]

\* C14 witness: a subscription that first polled before the source check has
\* emitted entries of later polls while the execution is still appending.
PolledWhileAppending ==
    \E s \in SubIds, r \in RunIds :
       /\ subs[s].pc = "polling" /\ subs[s].job.status = "running" /\ subs[s].job.progress = 0
       /\ Len(subs[s].data) >= 5
       /\ Active(r) /\ run[r].job_id = subs[s].job_id
       /\ Len(job_logs[subs[s].job_id]) > subs[s].last_id

\* C15: a subscription emits a done event only in a poll that read the job's
\* status as completed or failed, and the event carries that status; it emits
\* nothing after the done event; and it ends only with a done event, so while
\* it reads queued or running it keeps polling until the caller cancels it.
DoneOnlyOnTerminal ==
    /\ [](\A s \in SubIds :
             /\ subs[s].done # None <=> subs[s].pc = "ended"
             /\ subs[s].pc = "ended" =>
                   /\ subs[s].done \in Terminal
                   /\ subs[s].done = subs[s].job.status)
    /\ [][\A s \in SubIds :
             /\ (subs[s].pc = "polling" /\ subs'[s].pc = "ended") =>
                   /\ jobs[subs[s].job_id].status \in Terminal
                   /\ subs'[s].done = jobs[subs[s].job_id].status
             /\ (subs[s].pc = "ended" /\ subs'[s].pc \in {"ended", "cancelled"}) =>
                   subs'[s] = subs[s]]_vars

\* C15 witness: a subscription has ended with done failed.
EndedWithDoneFailed ==
    \E s \in SubIds :
       subs[s].pc = "ended" /\ subs[s].done = "failed" /\ Len(subs[s].data) >= 2

\* C16: once the job has a terminal status, a subscription that keeps polling
\* eventually emits the done event with that status and ends; and every
\* progress event carries the progress persisted at the time of its poll.
SubscriptionFollowsJob ==
    /\ \A s \in SubIds :
          (subs[s].pc = "polling" /\ jobs[1].status \in Terminal /\ subs[s].job_id = 1)
             ~> (subs[s].pc # "polling")
    /\ [][\A s \in SubIds :
             (subs[s].pc = "polling" /\ subs'[s] # subs[s] /\ subs'[s].pc \in {"polling", "ended"}
              /\ subs'[s].progress # NoProgress) =>
                subs'[s].progress = jobs[subs[s].job_id].progress]_vars

\* C19: create_job and create_batch send the task message for a job id only
\* after the Job row is committed with status queued and progress 0, so the
\* execution a worker begins for such a message finds the row: it never takes
\* the job-not-found path.
DispatchAfterPersist ==
    /\ [](\A j \in queue : jobs[j] # NoJob /\ jobs[j].status = "queued" /\ jobs[j].progress = 0)
    /\ [](\A r \in RunIds : run[r].result.kind # "return")
    /\ [][\A r \in RunIds, j \in JobIds :
             (hist'[r].seq # hist[r].seq /\ run'[r].job_id = j) =>
                /\ j \in queue /\ jobs[j] # NoJob
                /\ run'[r].pc = "log_start"]_vars

\* C19 witness: a batch call has queued two jobs and the execution of the
\* second has begun.
BatchJobsBegun ==
    \E q \in RequestIds, r \in RunIds :
       /\ requests[q].pc = "done" /\ requests[q].out = <<1, 2>>
       /\ run[r].job_id = 2 /\ run[r].pc = "roles" /\ jobs[2].status = "running"

\* The execution in slot r is the one its job's log and row currently reflect:
\* it has begun and no later execution of the job has.
Current(r) == run[r].pc # "idle" /\ JobOf(r) # NoJob /\ Latest(r)

\* The progress the pipeline finds when phase k begins.
PrevTarget(k) == IF k = 1 THEN 30 ELSE phases[k - 1][2]

\* The phase entries of a log, in the order of the log.
PhaseEntriesOf(log) ==
    SelectSeq(log, LAMBDA e : \E k \in 1..Len(phases) : e = PhaseEntries[k])

\* C21: the phases run in their listed order: the entry with a phase's
\* label is appended when the persisted progress equals the previous phase's
\* target (30 for the first phase), every increment of a phase comes after
\* that entry, and the phase entries of a run are a prefix of the phase list.
PhasesInOrder ==
    /\ [](\A r \in RunIds :
             Current(r) =>
                \E n \in 0..Len(phases) :
                   PhaseEntriesOf(RunLog(r)) = SubSeq(PhaseEntries, 1, n))
    /\ [][\A r \in RunIds :
             LET j == run[r].job_id
             IN /\ (run[r].pc = "phase_log" /\ run'[r].pc # "phase_log") =>
                      /\ jobs[j].progress = PrevTarget(run[r].phase)
                      /\ job_logs'[j] = Append(job_logs[j], PhaseEntries[run[r].phase])
                /\ (run[r].pc = "phase_incr" /\ run'[r].pc # "phase_incr") =>
                      /\ Last(job_logs[j]) = PhaseEntries[run[r].phase]
                      /\ jobs[j].progress >= PrevTarget(run[r].phase)
                      /\ jobs'[j].progress <= target(r)]_vars

\* C21 witness: the third phase has begun: its entry is the last of the log
\* and the progress is the second phase's target.
ThirdPhaseBegun ==
    \E r \in RunIds :
       /\ run[r].pc = "phase_check" /\ run[r].phase = 3
       /\ Last(LogOf(r)) = PhaseEntries[3] /\ JobOf(r).progress = 65

\* C22: whenever a job's persisted status is completed, its progress is 100,
\* its target_node is set, the completion entry is the last of its log, and
\* the result of the execution that completed it names the job, the VM and
\* the persisted target_node.
CompletedIsComplete ==
    \A j \in JobIds :
       (jobs[j] # NoJob /\ jobs[j].status = "completed") =>
          /\ jobs[j].progress = 100
          /\ Truthy(jobs[j].target_node)
          /\ Len(job_logs[j]) > 0
          /\ Last(job_logs[j]) = <<"Migration workflow completed">>
          /\ \A r \in RunIds :
                (run[r].job_id = j /\ run[r].pc = "done" /\ Latest(r)) =>
                   run[r].result = [kind |-> "return", ok |-> TRUE, job_id |-> j,
                                    vm_name |-> jobs[j].vm_name,
                                    target_node |-> jobs[j].target_node]

\* C22 witness: a job that named no target is completed on the node the
\* cluster returned.
CompletedOnClusterNode ==
    \E r \in RunIds :
       /\ EndedLast(r) /\ JobOf(r).status = "completed" /\ ~Truthy(hist[r].explicit)
       /\ JobOf(r).target_node = "pve-a" /\ run[r].result.target_node = "pve-a"

\* The entries of a log that the outer guard wrote.
FailedEntriesOf(log) == SelectSeq(log, LAMBDA e : e[1] = "Failed")

\* C23: an execution of an existing job that ends in failed has appended
\* exactly one entry "Failed: <error kind>: <error detail>", for the exception
\* it ended with, and that entry is the last one it appended; an execution
\* that ends in completed has appended none.
OneFailedEntryPerFailure ==
    \A r \in RunIds :
       EndedLast(r) =>
          /\ JobOf(r).status = "failed" =>
                /\ Len(FailedEntriesOf(RunLog(r))) = 1
                /\ Last(RunLog(r)) = FailedMessage(run[r].exc)
                /\ run[r].exc # NoExc
          /\ JobOf(r).status = "completed" => FailedEntriesOf(RunLog(r)) = << >>

\* C23 witness: an execution failed in the fourth phase and its last entry is
\* the failure entry.
EndedFailedInPipeline ==
    \E r \in RunIds :
       /\ EndedLast(r) /\ JobOf(r).status = "failed" /\ run[r].phase = 4
       /\ Last(RunLog(r))[1] = "Failed" /\ Len(RunLog(r)) = 9

\* The last progress value the execution in slot r has persisted (the 0 of
\* its first write when it has persisted no other).
LastPersisted(r) == IF hist[r].persisted = << >> THEN 0 ELSE Last(hist[r].persisted)

\* The execution failed inside the phase pipeline.
FailedInPipeline(r) == run[r].exc.type \in NotifyOutcomes \ {"ok"}

\* The target of the step in which the execution in slot r failed.
FailedStepTarget(r) ==
    IF FailedInPipeline(r) THEN target(r)
    ELSE IF hist[r].source # "ok" THEN 10
    ELSE IF hist[r].destination # "ok" THEN 20
    ELSE 30

\* The failing steps leave every column of the job but status as it was.
FailureWritesStatusOnly ==
    [][\A j \in JobIds :
          (jobs[j] # NoJob /\ jobs'[j].status = "failed" /\ jobs[j].status # "failed") =>
             jobs'[j] = [jobs[j] EXCEPT !.status = "failed"]]_vars

\* C24 as stated: the failure path changes only the status and appends log
\* entries; the final progress of a failed run is the last value persisted
\* before the failure, and it is below the target of the step that failed.
FailureBelowStepTarget ==
    /\ FailureWritesStatusOnly
    /\ [](\A r \in RunIds :
             (EndedLast(r) /\ JobOf(r).status = "failed") =>
                /\ JobOf(r).progress = LastPersisted(r)
                /\ JobOf(r).progress < FailedStepTarget(r))

\* C24 amended: the failure path changes only the status and appends log
\* entries; the final progress of a failed run is the last value persisted
\* before the failure; it is below the target of the step that failed when
\* the failure is in the set-up, connectivity or planning steps, and at most
\* the target of the current phase when it is in the phase pipeline.
FailureKeepsProgress ==
    /\ FailureWritesStatusOnly
    /\ [](\A r \in RunIds :
             (EndedLast(r) /\ JobOf(r).status = "failed") =>
                /\ JobOf(r).progress = LastPersisted(r)
                /\ JobOf(r).progress <= FailedStepTarget(r)
                /\ (~FailedInPipeline(r)) => JobOf(r).progress < FailedStepTarget(r))

\* C24 witness: the notification after the increment that reached the first
\* phase's target raised: the run failed with progress 50.
EndedFailedAtPhaseTarget ==
    \E r \in RunIds :
       /\ EndedLast(r) /\ JobOf(r).status = "failed" /\ FailedInPipeline(r)
       /\ run[r].phase = 1 /\ JobOf(r).progress = 50

\* C25: within one execution fetch_inventory is called at most once and
\* fetch_nodes at most once; fetch_nodes is called only after fetch_inventory
\* succeeded; and neither is called unless the providers and the VM resolved
\* and both role checks passed.
ConnectorsCalledOnce ==
    [][\A r \in RunIds :
          LET called(field) == hist'[r].seq = hist[r].seq /\ hist'[r][field] # hist[r][field]
          IN /\ (run[r].pc = "fetch_inventory" /\ run'[r] # run[r]) => called("source")
             /\ (run[r].pc = "fetch_nodes" /\ run'[r] # run[r]) => called("destination")
             /\ called("source") =>
                   /\ hist[r].source = "none" /\ hist[r].destination = "none"
                   /\ ValidContext(JobOf(r))
             /\ called("destination") =>
                   /\ hist[r].destination = "none" /\ hist[r].source = "ok"
                   /\ jobs[run[r].job_id].progress = 10
                   /\ ValidContext(JobOf(r))]_vars

\* C25 witness: both connectors have been called and the execution has ended.
EndedAfterBothCalls ==
    \E r \in RunIds :
       EndedLast(r) /\ hist[r].source = "ok" /\ hist[r].destination = "ProxmoxError"

\* C26: within an execution the persisted progress tells which steps are
\* done: at least 10 only if its fetch_inventory call succeeded, at least 20
\* only if its fetch_nodes call succeeded, at least 30 only if it resolved a
\* target and the job's target_node is set.
ProgressWitnessesSteps ==
    \A r \in RunIds :
       Current(r) =>
          /\ JobOf(r).progress >= 10 => hist[r].source = "ok"
          /\ JobOf(r).progress >= 20 => hist[r].destination = "ok"
          /\ JobOf(r).progress >= 30 =>
                /\ Truthy(run[r].target_node)
                /\ JobOf(r).target_node = run[r].target_node

\* C26 witness: the execution has persisted progress 30 for a target it
\* took from the cluster.
PlannedOnClusterNode ==
    \E r \in RunIds :
       /\ Current(r) /\ JobOf(r).progress = 30 /\ ~Truthy(hist[r].explicit)
       /\ JobOf(r).target_node = "pve-b"

\* C27: no step changes a job's vm_name, source_provider_id,
\* destination_provider_id, source_vm_id or created_at; target_node changes
\* only from empty to set, so it is written at most once per job.
ImmutableColumns ==
    [][\A j \in JobIds :
          jobs[j] # NoJob =>
             /\ jobs'[j] # NoJob
             /\ jobs'[j].vm_name = jobs[j].vm_name
             /\ jobs'[j].source_provider_id = jobs[j].source_provider_id
             /\ jobs'[j].destination_provider_id = jobs[j].destination_provider_id
             /\ jobs'[j].source_vm_id = jobs[j].source_vm_id
             /\ jobs'[j].created_at = jobs[j].created_at
             /\ jobs'[j].target_node # jobs[j].target_node =>
                   ~Truthy(jobs[j].target_node) /\ Truthy(jobs'[j].target_node)]_vars

\* C27 witness: a second execution of a job whose target the first execution
\* set has planned with that target, though the cluster now returns another.
ReplannedWithPersistedTarget ==
    \E r \in RunIds :
       /\ Planned(r) /\ hist[r].seq = 2 /\ run[r].job_id = 1
       /\ hist[r].explicit = "pve-a" /\ hist[r].nodes = <<"pve-b", "pve-a">>
       /\ JobOf(r).target_node = "pve-a"

\* The entry that announces the source connectivity check.
SourceEntry == <<"Validating connectivity with vCenter source.">>

\* C30 as stated: the source connectivity entry is appended only after
\* fetch_inventory succeeded: an execution whose call failed has appended no
\* source connectivity entry besides the final failure entry.
SourceEntryOnlyAfterSuccess ==
    \A r \in RunIds :
       (EndedLast(r) /\ hist[r].source \in SourceOutcomes \ {"ok"}) =>
          \A i \in 1..Len(RunLog(r)) : RunLog(r)[i] # SourceEntry

\* C30 amended: the source connectivity entry is appended before
\* fetch_inventory is called, whatever the outcome of the call; progress 10
\* is persisted only by a call that succeeded; an execution whose call failed
\* has appended the start entry, the source connectivity entry and the final
\* failure entry, and nothing else.
SourceEntryBeforeCall ==
    /\ [](\A r \in RunIds :
             (Current(r) /\ run[r].pc = "fetch_inventory") =>
                RunLog(r) = << <<"Starting migration workflow.">>, SourceEntry >>)
    /\ [](\A r \in RunIds :
             (EndedLast(r) /\ hist[r].source \in SourceOutcomes \ {"ok"}) =>
                /\ RunLog(r) = << <<"Starting migration workflow.">>, SourceEntry,
                                  FailedMessage(run[r].exc) >>
                /\ \A i \in 1..Len(hist[r].persisted) : hist[r].persisted[i] # 10)
    /\ [](\A r \in RunIds :
             (Current(r) /\ hist[r].source = "ok") => hist[r].persisted[1] = 10)

\* C30 witness: fetch_inventory raised VCenterError and the log of the
\* execution holds the source connectivity entry before the failure entry.
SourceEntryThenFailure ==
    \E r \in RunIds :
       /\ EndedLast(r) /\ hist[r].source = "VCenterError"
       /\ Len(RunLog(r)) = 3 /\ RunLog(r)[2] = SourceEntry /\ RunLog(r)[3][1] = "Failed"

\* The (status, progress) pair of the row of job j in the store.
StoredPair(j) == [status |-> jobs[j].status, progress |-> jobs[j].progress]

\* C29: the status and the progress one poll reports come from one read of
\* the job's row: the poll that loads the Job takes the pair the store holds at
\* that step, every event of the subscription carries the values of a pair so
\* read, never the status of one write with the progress of another, and a
\* done event carrying completed follows, in its poll, a progress event
\* carrying 100.
PairsReadTogether ==
    /\ [][\A s \in SubIds :
             (subs[s].pc = "polling" /\ subs'[s].pc \in {"polling", "ended"}
              /\ subs'[s] # subs[s] /\ subs'[s].job # NoJob) =>
                /\ subs[s].job = NoJob => subs'[s].job = StoredPair(subs[s].job_id)
                /\ subs[s].job # NoJob => subs'[s].job = subs[s].job
                /\ subs'[s].progress = subs'[s].job.progress
                /\ subs'[s].pc = "ended" => subs'[s].done = subs'[s].job.status]_vars
    /\ [](\A s \in SubIds : subs[s].done = "completed" => subs[s].progress = 100)

\* C29 witness: a subscription read the pair (running, 65) in a poll between
\* two increments of the execution, which has since persisted 70.
PolledBetweenWrites ==
    \E s \in SubIds, r \in RunIds :
       /\ subs[s].pc = "polling" /\ subs[s].polled
       /\ subs[s].job = [status |-> "running", progress |-> 65] /\ subs[s].progress = 65
       /\ InPipeline(r) /\ run[r].job_id = subs[s].job_id
       /\ StoredPair(subs[s].job_id) = [status |-> "running", progress |-> 70]

\* What the execution in slot r met that its job's row does not determine:
\* how its two connector calls ended, the nodes fetch_nodes returned, and
\* whether a progress notification was refused, and after which increment.
Choices(r) ==
    [source |-> hist[r].source, destination |-> hist[r].destination, nodes |-> hist[r].nodes,
     refused |-> FailedInPipeline(r), at |-> LastPersisted(r)]

\* The row of job j as it was submitted.
Submitted(j) ==
    [jobs[j] EXCEPT !.status = "queued", !.progress = 0, !.target_node = SubmittedTarget[j]]

\* The end of an execution that fails with the given exception.
Failure(log, type, msg, progress, target_node) ==
    [status |-> "failed", progress |-> progress, target_node |-> target_node,
     log |-> Append(log, <<"Failed", type, msg>>)]

\* The task run from its first line to its last on the row job with the
\* choices c and nothing else running: the status, progress and target_node
\* it leaves and the log entries it appends.
Alone(job, c) ==
    LET source_provider == _load_provider(job.source_provider_id)
        dest_provider == _load_provider(job.destination_provider_id)
        vm == _load_vm(job.source_vm_id)
        target_node == ResolveTarget(job.target_node, c.nodes)
        start == << <<"Starting migration workflow.">> >>
        source == Append(start, <<"Validating connectivity with vCenter source.">>)
        dest == Append(source, <<"Validating connectivity with Proxmox destination.">>)
        plan == Append(dest, <<"Prepared migration plan", vm.name, vm.source_identifier,
                               target_node>>)
        begun == {k \in 1..Len(phases) : ~c.refused \/ PrevTarget(k) < c.at}
        pipeline == plan \o SubSeq(PhaseEntries, 1, Cardinality(begun))
    IN IF source_provider = NoProvider \/ dest_provider = NoProvider \/ vm = NoVM
       THEN Failure(start, "ValueError", "Job is missing provider or VM information.",
                    0, job.target_node)
       ELSE IF source_provider.type # "vcenter"
       THEN Failure(start, "ValueError", "Source provider must be a vCenter instance.",
                    0, job.target_node)
       ELSE IF dest_provider.type # "proxmox"
       THEN Failure(start, "ValueError", "Destination provider must be a Proxmox VE instance.",
                    0, job.target_node)
       ELSE IF c.source = "VCenterError"
       THEN Failure(source, "VCenterError",
                    "Unable to connect to vCenter with stored credentials.", 0, job.target_node)
       ELSE IF c.source # "ok"
       THEN Failure(source, c.source, "vCenter API fault", 0, job.target_node)
       ELSE IF c.destination = "ProxmoxError"
       THEN Failure(dest, "ProxmoxError",
                    "Unable to connect to Proxmox with stored credentials.", 10, job.target_node)
       ELSE IF c.destination # "ok"
       THEN Failure(dest, c.destination, "Port could not be cast to integer value",
                    10, job.target_node)
       ELSE IF ~Truthy(target_node)
       THEN Failure(dest, "ValueError",
                    "Destination node not specified and Proxmox cluster returned no nodes.",
                    20, job.target_node)
       ELSE IF c.refused
       THEN Failure(pipeline, "ConnectionError", "result backend unavailable", c.at, target_node)
       ELSE [status |-> "completed", progress |-> 100, target_node |-> target_node,
             log |-> Append(pipeline, <<"Migration workflow completed">>)]

\* C28: executions of distinct job ids that run in parallel do not interfere:
\* no step of the execution of one job changes the row or the log entries of
\* another job, and however the steps of the two executions interleave, each
\* job ends with the status, progress, target_node and log sequence that its
\* execution yields when it runs alone.
ParallelRunsAsAlone ==
    /\ [][\A r \in RunIds, j \in JobIds :
             (run'[r] # run[r] /\ run'[r].job_id # j) =>
                jobs'[j] = jobs[j] /\ job_logs'[j] = job_logs[j]]_vars
    /\ [](\A r \in RunIds :
             EndedLast(r) =>
                LET j == run[r].job_id
                    alone == Alone(Submitted(j), Choices(r))
                IN /\ jobs[j].status = alone.status
                   /\ jobs[j].progress = alone.progress
                   /\ jobs[j].target_node = alone.target_node
                   /\ job_logs[j] = alone.log)

\* C28 witness: the two executions began before either ended; the one of
\* job 1 completed on the first node of the cluster, the one of job 2 failed
\* on a refused notification at progress 65.
ParallelRunsEnded ==
    \E r1 \in RunIds, r2 \in RunIds :
       /\ EndedLast(r1) /\ run[r1].job_id = 1 /\ EndedLast(r2) /\ run[r2].job_id = 2
       /\ system_logs[1].text = "Migration job started"
       /\ system_logs[2].text = "Migration job started"
       /\ jobs[1].status = "completed" /\ jobs[1].target_node = "pve-b"
       /\ jobs[2].status = "failed" /\ jobs[2].progress = 65 /\ jobs[2].target_node = "pve-x"
       /\ Len(job_logs[1]) = Len(phases) + 5 /\ Len(job_logs[2]) = 7

\* C31: a subscription that has emitted the done event has emitted every log
\* entry the execution of its job writes, the final "Failed" entry of a failed
\* execution included: it never ends with an entry of the run undelivered.
DoneAfterWholeLog ==
    \A s \in SubIds :
       subs[s].pc = "ended" => subs[s].data = History(subs[s].job_id)

\* C32: batch submission is all-or-nothing: a call of create_batch that ends
\* with an HTTP error (unknown VM id, VM of another provider, wrong provider
\* kinds) has persisted no Job and dispatched no execution.
BatchAllOrNothing ==
    \A q \in RequestIds :
       (requests[q].pc = "done" /\ requests[q].response \in {"400", "404"}) =>
          /\ requests[q].out = << >>
          /\ requests[q].job_id = NoId

\* The step is a turn of the loop of the generator in slot s.
Polls(s) == subs[s].pc = "polling" /\ subs'[s].polled /\ subs'[s].pc \in {"polling", "ended"}

\* C33: a subscription for a job id that has no Job row emits no event (no
\* data, progress or done event) and does not end by itself, while a
\* subscription for a job that has a row but no log entry emits a progress
\* event in every poll.
NoRowNoEvent ==
    /\ [](\A s \in SubIds :
             (subs[s].pc # "idle" /\ jobs[subs[s].job_id] = NoJob) =>
                /\ subs[s].data = << >> /\ subs[s].progress = NoProgress
                /\ subs[s].done = None /\ subs[s].pc # "ended")
    /\ [][\A s \in SubIds :
             (Polls(s) /\ jobs[subs[s].job_id] # NoJob /\ job_logs[subs[s].job_id] = << >>) =>
                /\ subs'[s].job # NoJob
                /\ subs'[s].progress = subs'[s].job.progress
                /\ subs'[s].progress # NoProgress
                /\ subs'[s].data = << >>]_vars

\* C33 witness: the caller's second subscription names job 2, which has no
\* row; the generator has polled and emitted nothing.
PolledWithoutRow ==
    \E s \in SubIds :
       /\ subs[s].pc = "polling" /\ subs[s].polled /\ subs[s].again
       /\ jobs[subs[s].job_id] = NoJob
       /\ subs[s].data = << >> /\ subs[s].progress = NoProgress /\ subs[s].done = None

\* C34: record_system_event never passes a failure on to its caller: when the
\* system event cannot be persisted the table is left as it was and the task
\* goes on, so every execution ends with the status, progress, target_node
\* and log entries it has when every system event is persisted.
EventFailureIsSilent ==
    /\ [][~events_up => system_logs' = system_logs]_vars
    /\ [](\A r \in RunIds :
             EndedLast(r) =>
                LET j == run[r].job_id
                    alone == Alone(Submitted(j), Choices(r))
                IN /\ [status |-> jobs[j].status, progress |-> jobs[j].progress,
                       target_node |-> jobs[j].target_node, log |-> job_logs[j]] = alone
                   /\ run[r].result.ok <=> alone.status = "completed")

\* C34 witness: no system event of the execution of job 1 could be persisted,
\* and the execution returned its result with the job completed at 100.
CompletedWithoutEvents ==
    \E r \in RunIds :
       /\ EndedLast(r) /\ run[r].job_id = 1 /\ run[r].result.ok
       /\ jobs[1].status = "completed" /\ jobs[1].progress = 100
       /\ ~events_up /\ system_logs = << >>

====
